---- MODULE Spec2Model ----
(***************************************************************************)
(* alchemyjsonschema: generation of a JSON Schema document from a mapped   *)
(* model.  One behaviour is one call of SchemaFactory.__call__: the        *)
(* arguments and the factory configuration are drawn in Init, and the      *)
(* recursive _build_properties is run on an explicit stack of frames.      *)
(*                                                                         *)
(* Representation.  A Python name is a string.  A dotted name given by the *)
(* caller ("items.title") is the sequence of its dot-separated components  *)
(* (<<"items", "title">>), so that startswith(name + ".") is "the first    *)
(* component is name and there are more" and split(".", 1)[1] is Tail.     *)
(* An optional value is None or Some(v).  A list that the code only tests  *)
(* for membership, truth and intersection is a set of names; the entry     *)
(* None of such a list is the empty name <<>>.  An OrderedDict is a        *)
(* sequence of [key, val] entries in insertion order.  A field schema      *)
(* (a plain dict that receives override keys) is a function from names.    *)
(***************************************************************************)
EXTENDS Integers, Sequences, FiniteSets, TLC

VARIABLES factory, args, pc, status, stack, history, definitions, schema

vars == <<factory, args, pc, status, stack, history, definitions, schema>>

\* ---------------------------------------------------------------- bounds

\* depth arguments tried: None and -1 .. MaxDepth
MaxDepth == 2
\* hand-controlled decision maps name relationships nested this deep
MaxDecisionDepth == 3
\* frames of _build_properties that may be open at once (never reached by
\* the code on the models below: see StackBelowCap)
MaxStack == 8

\* ---------------------------------------------------------------- values

None == [isNone |-> TRUE]
Some(v) == [isNone |-> FALSE, v |-> v]

Range(s) == {s[i] : i \in DOMAIN s}

\* an OrderedDict: its keys in order, and d[k] = v (an existing key keeps
\* its place)
HasKey(d, k) == \E i \in DOMAIN d : d[i].key = k
Keys(d) == [i \in DOMAIN d |-> d[i].key]
DictSet(d, k, v) ==
  IF HasKey(d, k)
  THEN [i \in DOMAIN d |-> IF d[i].key = k THEN [key |-> k, val |-> v] ELSE d[i]]
  ELSE Append(d, [key |-> k, val |-> v])

\* ------------------------------------------------- the mapped models

ONETOMANY == "ONETOMANY"
MANYTOONE == "MANYTOONE"
MANYTOMANY == "MANYTOMANY"

Models == {"User", "Item", "Note", "Tag", "Node"}

Col(name, type, length, nullable, hasDefault, fk) ==
  [name |-> name, type |-> type, length |-> length, nullable |-> nullable,
   hasDefault |-> hasDefault, foreign_keys |-> fk]

\* mapper.local_table.columns, in declaration order
local_table_columns(m) ==
  CASE m = "User" -> << Col("id", "Integer", None, FALSE, FALSE, FALSE),
                        Col("name", "String", Some(50), TRUE, FALSE, FALSE) >>
    [] m = "Item" -> << Col("id", "Integer", None, FALSE, FALSE, FALSE),
                        Col("title", "String", Some(20), FALSE, FALSE, FALSE),
                        Col("user_id", "Integer", None, FALSE, FALSE, TRUE) >>
    [] m = "Note" -> << Col("id", "Integer", None, FALSE, FALSE, FALSE),
                        Col("user_id", "Integer", None, TRUE, FALSE, TRUE) >>
    [] m = "Tag"  -> << Col("id", "Integer", None, FALSE, FALSE, FALSE),
                        Col("label", "String", Some(50), TRUE, FALSE, FALSE),
                        Col("rank", "Integer", None, FALSE, TRUE, FALSE) >>
    [] m = "Node" -> << Col("id", "Integer", None, FALSE, FALSE, FALSE),
                        Col("parent_id", "Integer", None, TRUE, FALSE, TRUE) >>

Rel(key, target, direction, back_populates, backref, local, remote) ==
  [key |-> key, target |-> target, direction |-> direction,
   back_populates |-> back_populates, backref |-> backref,
   local_columns |-> local, remote_side |-> remote]

\* mapper.relationships, in order.  A column is <<table, name>>;
\* local_columns and remote_side are listed in their iteration order and
\* compared as sets.
relationships(m) ==
  CASE m = "User" -> << Rel("items", "Item", ONETOMANY, Some("user"), None,
                            << <<"User", "id">> >>, << <<"Item", "user_id">> >>),
                        Rel("notes", "Note", ONETOMANY, None, None,
                            << <<"User", "id">> >>, << <<"Note", "user_id">> >>) >>
    [] m = "Item" -> << Rel("user", "User", MANYTOONE, Some("items"), None,
                            << <<"Item", "user_id">> >>, << <<"User", "id">> >>),
                        Rel("tags", "Tag", MANYTOMANY, None, None,
                            << <<"Item", "id">> >>, << <<"Tag", "id">> >>) >>
    [] m = "Note" -> << Rel("author", "User", MANYTOONE, None, None,
                            << <<"Note", "user_id">> >>, << <<"User", "id">> >>) >>
    [] m = "Tag"  -> << >>
    [] m = "Node" -> << Rel("children", "Node", ONETOMANY, None, Some("parent"),
                            << <<"Node", "id">> >>, << <<"Node", "parent_id">> >>),
                        Rel("parent", "Node", MANYTOONE, None, None,
                            << <<"Node", "parent_id">> >>, << <<"Node", "id">> >>) >>

\* a property of a mapper: a ColumnProperty or a RelationshipProperty
ColProp(m, name) == [isRel |-> FALSE, model |-> m, key |-> name]
RelProp(m, key) == [isRel |-> TRUE, model |-> m, key |-> key]
NoProp == [isRel |-> FALSE, model |-> "", key |-> ""]

ColumnNamed(cs, name) == cs[CHOOSE i \in DOMAIN cs : cs[i].name = name]
RelNamed(rs, key) == rs[CHOOSE i \in DOMAIN rs : rs[i].key = key]

\* prop.columns[0] of a ColumnProperty (each is backed by one column)
ColumnOf(prop) == ColumnNamed(local_table_columns(prop.model), prop.key)

\* the attributes of a RelationshipProperty
RelOf(prop) == RelNamed(relationships(prop.model), prop.key)

\* ---------------------------------------------------------------- walkers

SingleModelWalker == "SingleModelWalker"
OneModelOnlyWalker == "OneModelOnlyWalker"
AlsoChildrenWalker == "AlsoChildrenWalker"
HandControlledWalker == "HandControlledWalker"

\* `if includes and excludes: if set(includes).intersection(excludes): raise`
Conflict(includes, excludes) ==
  /\ ~includes.isNone /\ includes.v # {}
  /\ ~excludes.isNone /\ excludes.v # {}
  /\ includes.v \cap excludes.v # {}

\* BaseModelWalker.__init__ (and HandControlledWalker.__init__): the walker
\* object.  `self.history = history or []`: the walker shares the caller's
\* list only when that list is given and not empty; otherwise it holds a
\* list of its own, which nothing ever appends to.
BaseModelWalker(kind, model, includes, excludes, historyArg, decisions) ==
  [kind |-> kind, mapper |-> model, includes |-> includes, excludes |-> excludes,
   shared |-> (~historyArg.isNone /\ historyArg.v # <<>>),
   decisions |-> decisions, walking |-> <<>>]

\* self.history of a walker
WalkerHistory(w) == IF w.shared THEN history ELSE <<>>

\* get_children on a list (or on None, which yields `default`)
get_children(name, params, default) ==
  IF params.isNone THEN default
  ELSE Some({Tail(e) : e \in {x \in params.v : Len(x) > 1 /\ Head(x) = name}})

\* get_children on a dict
get_children_items(name, params) ==
  [k \in {Tail(x) : x \in {y \in DOMAIN params : Len(y) > 1 /\ Head(y) = name}} |->
     params[<<name>> \o k]]

ColumnProps(m, cs) == [i \in DOMAIN cs |-> ColProp(m, cs[i].name)]
RelProps(m, rs) == [i \in DOMAIN rs |-> RelProp(m, rs[i].key)]

\* iterate() of each walker (HandControlledWalker.iterate before
\* treat_relationship is applied to the relationships)
iterate(w) ==
  IF w.kind \in {SingleModelWalker, OneModelOnlyWalker}
  THEN ColumnProps(w.mapper, local_table_columns(w.mapper))
  ELSE ColumnProps(w.mapper, local_table_columns(w.mapper))
       \o RelProps(w.mapper, relationships(w.mapper))

\* `self.includes is None or prop.key in self.includes`
InIncludes(w, key) == w.includes.isNone \/ <<key>> \in w.includes.v

NotInExcludes_ignored(w, key) == TRUE

\* `self.excludes is None or prop.key not in self.excludes`
NotInExcludes(w, key) == w.excludes.isNone \/ <<key>> \notin w.excludes.v

InHistory_never(w, prop) == FALSE

\* `prop in self.history`
InHistory(w, prop) == prop \in Range(WalkerHistory(w))

\* any(c.foreign_keys for c in getattr(prop, "columns", Empty))
HasForeignKeys(prop) == ~prop.isRel /\ ColumnOf(prop).foreign_keys

\* the conditions of walk() under which a property from iterate() is yielded
walk_yields(w, prop) ==
  /\ InIncludes(w, prop.key)
  /\ NotInExcludes(w, prop.key)
  /\ w.kind \in {AlsoChildrenWalker, HandControlledWalker} => ~InHistory(w, prop)
  /\ \/ w.kind = SingleModelWalker
     \/ w.kind = HandControlledWalker /\ prop.key \in Range(w.walking)
     \/ ~HasForeignKeys(prop)

ColumnNames(cs) == [i \in DOMAIN cs |-> cs[i][2]]

\* the names of prop.local_columns
LocalColumnNames(prop) == ColumnNames(RelOf(prop).local_columns)

\* treat_relationship, decision "foreignkey"
treat_foreignkey(w, names) ==
  [error |-> "",
   props |-> [i \in DOMAIN names |-> ColProp(w.mapper, names[i])],
   walking |-> w.walking \o names]

\* treat_relationship, once self.decisions[prop.key] is read
treat_decided(w, prop, decision) ==
  IF decision = "relationship"
  THEN [error |-> "", props |-> <<prop>>, walking |-> w.walking]
  ELSE IF decision = "foreignkey"
  THEN treat_foreignkey(w, LocalColumnNames(prop))
  ELSE [error |-> "Exception", props |-> <<>>, walking |-> w.walking]

\* HandControlledWalker.treat_relationship: what it yields, the walker's
\* `walking` afterwards, and the exception it raises ("" for none)
treat_relationship(w, prop) ==
  IF <<prop.key>> \notin DOMAIN w.decisions
  THEN [error |-> "KeyError", props |-> <<>>, walking |-> w.walking]
  ELSE treat_decided(w, prop, w.decisions[<<prop.key>>])

\* the filter of walk() on what iterate() gave for one element
walk_filter(w, t) ==
  [error |-> t.error,
   props |-> SelectSeq(t.props, LAMBDA p : walk_yields([w EXCEPT !.walking = t.walking], p)),
   walking |-> t.walking]

\* one element of iterate() carried through walk(): the properties walk()
\* yields for it, and the walker's `walking` afterwards
walk_element(w, elem) ==
  walk_filter(w, IF w.kind = HandControlledWalker /\ elem.isRel
                 THEN treat_relationship(w, elem)
                 ELSE [error |-> "", props |-> <<elem>>, walking |-> w.walking])

\* list(walker.walk()): a whole walk from element i on, with what was
\* yielded before it in `acc`
RECURSIVE walk_from(_, _, _)
RECURSIVE walk_step(_, _, _, _)
walk_step(w, i, acc, r) ==
  IF r.error # "" THEN [error |-> r.error, props |-> acc, walking |-> r.walking]
  ELSE walk_from([w EXCEPT !.walking = r.walking], i + 1, acc \o r.props)

walk_from(w, i, acc) ==
  IF i > Len(iterate(w)) THEN [error |-> "", props |-> acc, walking |-> w.walking]
  ELSE walk_step(w, i, acc, walk_element(w, iterate(w)[i]))

walk(w) == walk_from(w, 1, <<>>)

\* HandControlledWalker.clone / BaseModelWalker.clone
clone(w, name, mapper, includes, excludes, historyArg) ==
  BaseModelWalker(w.kind, mapper, includes, excludes, historyArg,
                  IF w.kind = HandControlledWalker
                  THEN get_children_items(name, w.decisions)
                  ELSE w.decisions)

\* ------------------------------------------------------ relation decisions

RELATIONSHIP == "relationship"
FOREIGNKEY == "foreignkey"
IMMEDIATE == "immediate"

RelationDesicion == "RelationDesicion"
ComfortableDesicion == "ComfortableDesicion"

EMPTY_DICT == [k \in {} |-> ""]

\* one (action, prop, opts) yielded by desicion(); an action that is the
\* literal schema fragment StringArray is written IMMEDIATE
Triple(action, prop, opts) ==
  [action |-> action, prop |-> prop, opts |-> opts]

StringArray == [type |-> "array", items |-> [type |-> "string"]]

\* RelationDesicion.desicion
relation_desicion(w, prop, toplevel) ==
  IF prop.isRel
  THEN [error |-> "", triples |-> << Triple(RELATIONSHIP, prop, EMPTY_DICT) >>]
  ELSE [error |-> "", triples |-> << Triple(FOREIGNKEY, prop, EMPTY_DICT) >>]

\* the FOREIGNKEY triples ComfortableDesicion yields for a many-to-one
Flattened(w, prop, names) ==
  [i \in DOMAIN names |->
     Triple(FOREIGNKEY, ColProp(w.mapper, names[i]), (<<"relation">> :> prop.key))]

\* ComfortableDesicion.desicion
comfortable_desicion(w, prop, toplevel) ==
  IF prop.isRel
  THEN IF RelOf(prop).direction = MANYTOONE
       THEN IF toplevel
            THEN [error |-> "", triples |-> Flattened(w, prop, LocalColumnNames(prop))]
            ELSE IF WalkerHistory(w) = <<>>
                 THEN [error |-> "IndexError", triples |-> <<>>]
                 ELSE IF Range(RelOf(prop).local_columns)
                           # Range(RelOf(WalkerHistory(w)[1]).remote_side)
                      THEN [error |-> "", triples |-> Flattened(w, prop, LocalColumnNames(prop))]
                      ELSE [error |-> "", triples |-> <<>>]
       ELSE IF RelOf(prop).direction = MANYTOMANY
       THEN [error |-> "", triples |-> << Triple(IMMEDIATE, prop, EMPTY_DICT) >>]
       ELSE [error |-> "", triples |-> << Triple(RELATIONSHIP, prop, EMPTY_DICT) >>]
  ELSE [error |-> "", triples |-> << Triple(FOREIGNKEY, prop, EMPTY_DICT) >>]

\* self.relation_decision.desicion(walker, prop, toplevel)
desicion(w, prop, toplevel) ==
  IF factory.relation_decision = ComfortableDesicion
  THEN comfortable_desicion(w, prop, toplevel)
  ELSE relation_desicion(w, prop, toplevel)

\* the triples of every property walk() yielded for one element
desicion_cons(d, rest) ==
  IF d.error # "" THEN d
  ELSE [error |-> rest.error, triples |-> d.triples \o rest.triples]

RECURSIVE desicion_all(_, _, _)
desicion_all(w, props, toplevel) ==
  IF props = <<>> THEN [error |-> "", triples |-> <<>>]
  ELSE desicion_cons(desicion(w, Head(props), toplevel),
                     desicion_all(w, Tail(props), toplevel))

\* ---------------------------------------------------------------- overrides

pop_marker == (<<"pop_marker">> :> TRUE)

\* CollectionForOverrides.__init__
CollectionForOverrides(params) ==
  [params |-> params, not_used_keys |-> DOMAIN params]

PopKeys(ov) == {k \in DOMAIN ov.params : ov.params[k] = pop_marker}

\* CollectionForOverrides.overrides: every entry of params is applied to
\* basedict and struck from not_used_keys; KeyError when an entry to pop is
\* not in basedict or a key was struck before
overrides(ov, basedict) ==
  IF \/ \E k \in PopKeys(ov) : k \notin DOMAIN basedict
     \/ ~(DOMAIN ov.params \subseteq ov.not_used_keys)
  THEN [error |-> "KeyError", basedict |-> basedict, ov |-> ov]
  ELSE [error |-> "",
        basedict |-> [k \in (DOMAIN basedict \cup DOMAIN ov.params) \ PopKeys(ov) |->
                        IF k \in DOMAIN ov.params THEN ov.params[k] ELSE basedict[k]],
        ov |-> [ov EXCEPT !.not_used_keys = ov.not_used_keys \ DOMAIN ov.params]]

\* ---------------------------------------------------------------- ChildFactory

NameOrNone(opt) == IF opt.isNone THEN <<>> ELSE <<opt.v>>

\* ChildFactory.default_excludes
default_excludes(prop) ==
  {NameOrNone(RelOf(prop).back_populates), NameOrNone(RelOf(prop).backref)}

\* ChildFactory.child_overrides
child_overrides(prop, ov) ==
  CollectionForOverrides(get_children_items(prop.key, ov.params))

\* `if not self.bidirectional: excludes.extend(self.default_excludes(prop))`
extend_excludes(excludes, prop) ==
  IF ~factory.bidirectional
  THEN Some(excludes.v \cup default_excludes(prop))
  ELSE excludes

\* the excludes and includes ChildFactory.child_walker hands to clone
child_excludes(prop, w) ==
  extend_excludes(get_children(prop.key, w.includes, Some({})), prop)

child_includes(prop, w) == get_children(prop.key, w.includes, None)

\* ChildFactory.child_walker
child_walker(prop, w, historyArg) ==
  clone(w, prop.key, RelOf(prop).target, child_includes(prop, w),
        child_excludes(prop, w), historyArg)

\* `depth and depth - 1`
child_depth(depth) ==
  IF depth.isNone THEN None
  ELSE IF depth.v = 0 THEN depth
  ELSE Some(depth.v - 1)

\* ChildFactory.child_schema, after the recursive build has returned
child_schema(prop, subschema) ==
  IF RelOf(prop).direction = ONETOMANY
  THEN [type |-> "array", items |-> subschema]
  ELSE [type |-> "object", properties |-> subschema]

\* ---------------------------------------------------------------- SchemaFactory

\* Classifier.__getitem__ on default_column_to_schema, for the column
\* types of the models above
classifier(type) ==
  CASE type = "Integer" -> "integer"
    [] type = "String" -> "string"

\* string_max_length
string_max_length(column, sub) ==
  IF ~column.length.isNone
  THEN (<<"maxLength">> :> column.length.v) @@ sub
  ELSE sub

\* _add_restriction_if_found on default_restriction_dict
add_restriction_if_found(sub, column) ==
  IF column.type = "String" THEN string_max_length(column, sub) ELSE sub

\* the field schema of a column before overrides and options
field_schema(column) ==
  add_restriction_if_found((<<"type">> :> classifier(column.type)), column)

\* `if column.name in overrides: overrides.overrides(sub)`
apply_overrides(ov, column) ==
  IF <<column.name>> \in DOMAIN ov.params
  THEN overrides(ov, field_schema(column))
  ELSE [error |-> "", basedict |-> field_schema(column), ov |-> ov]

\* `prop_schema[column.name] = sub` and then `prop_schema[prop.key] = sub`
store_field(prop_schema, column_name, key, sub) ==
  DictSet(DictSet(prop_schema, column_name, sub), key, sub)

\* any(not c.nullable and c.default is None for c in columns)
is_required(p) == ~p.isRel /\ ~ColumnOf(p).nullable /\ ~ColumnOf(p).hasDefault

required_of(r) ==
  [error |-> r.error, required |-> Keys(SelectSeq(r.props, is_required)),
   walking |-> r.walking]

\* SchemaFactory._detect_required: the list, the walker's `walking`
\* afterwards, and the exception the walk raises ("" for none)
detect_required(w) == required_of(walk(w))

\* `depth is not None and depth <= 0`
DepthExhausted(depth) == ~depth.isNone /\ depth.v <= 0

FileRef(name) == [ref |-> <<name, ".json#">>]
DefinitionRef(clsname) == [ref |-> <<"#/definitions/", clsname>>]

\* _add_property_with_reference: what is stored at current_schema[prop.key]
reference_entry(prop, val) ==
  IF factory.reference_files
  THEN IF RelOf(prop).direction \in {MANYTOONE, MANYTOMANY} \/ val.type = "array"
       THEN [type |-> "array", items |-> FileRef(RelOf(prop).target)]
       ELSE FileRef(RelOf(prop).target)
  ELSE IF val.type = "object"
       THEN DefinitionRef(RelOf(prop).target)
       ELSE [type |-> "array", items |-> DefinitionRef(RelOf(prop).target)]

\* _add_property_with_reference: val as left in root_schema["definitions"]
definition_entry(val, required) ==
  [type |-> "object",
   properties |-> IF val.type = "object" THEN val.properties ELSE val.items,
   required |-> required]

\* ---------------------------------------------------------------- inputs

RelPathsVia(r, n, deeper) == {<<r.key>>} \cup {<<r.key>> \o p : p \in deeper}

\* dotted relationship names that follow the relationships from model m,
\* up to n components
RECURSIVE RelPaths(_, _)
RelPaths(m, n) ==
  IF n = 0 THEN {}
  ELSE UNION {RelPathsVia(relationships(m)[i], n, RelPaths(relationships(m)[i].target, n - 1))
              : i \in DOMAIN relationships(m)}

\* a decisions dict for HandControlledWalkerFactory: the relationships named
\* in fk are "foreignkey", those in bad carry an unknown decision, the rest
\* are "relationship"
Decisions(fk, bad) ==
  [p \in UNION {RelPaths(m, MaxDecisionDepth) : m \in Models} |->
     IF p[Len(p)] \in fk THEN "foreignkey"
     ELSE IF p[Len(p)] \in bad THEN "inline"
     ELSE "relationship"]

DecisionsInputs ==
  { Decisions({}, {}), Decisions({"user", "author", "parent"}, {}), Decisions({"user"}, {"tags"}) }

\* SchemaFactory(walker, relation_decision=, child_factory=ChildFactory(
\* bidirectional=), reference_files=).  The flags that only matter once a
\* relationship is walked are left at their defaults for the walkers that
\* walk none.
FactoryInputs ==
  { f \in [walker : {SingleModelWalker, OneModelOnlyWalker, AlsoChildrenWalker,
                     HandControlledWalker},
           relation_decision : {RelationDesicion, ComfortableDesicion},
           bidirectional : BOOLEAN,
           reference_files : BOOLEAN,
           decisions : DecisionsInputs \cup {EMPTY_DICT}] :
      /\ (f.walker = HandControlledWalker) = (f.decisions # EMPTY_DICT)
      /\ f.walker \in {SingleModelWalker, OneModelOnlyWalker}
           => ~f.bidirectional /\ ~f.reference_files }

IncludesInputs ==
  { None, Some({}), Some({<<"id">>}), Some({<<"id">>, <<"items">>, <<"items", "id">>}) }

ExcludesInputs ==
  { None, Some({<<"id">>}), Some({<<"label">>, <<"items", "title">>}) }

Fragment == (<<"type">> :> "string") @@ (<<"maxLength">> :> 10)

OverridesInputs ==
  { EMPTY_DICT,
    (<<"id">> :> Fragment),
    (<<"bogus">> :> Fragment),
    (<<"id">> :> Fragment) @@ (<<"bogus">> :> Fragment),
    (<<"id">> :> Fragment) @@ (<<"title">> :> Fragment),
    (<<"id">> :> pop_marker),
    (<<"items", "title">> :> Fragment) }

DepthInputs == {None} \cup {Some(d) : d \in (-1)..MaxDepth}

\* the arguments of __call__; overrides are tried without filters
ArgsInputs ==
  { a \in [model : Models, includes : IncludesInputs, excludes : ExcludesInputs,
           overrides : OverridesInputs, depth : DepthInputs] :
      a.overrides # EMPTY_DICT => a.includes = None /\ a.excludes = None }

\* ---------------------------------------------------------------- the call

Top == stack[Len(stack)]

Frame(walker, ov, depth, toplevel, prop) ==
  [walker |-> walker, overrides |-> ov, depth |-> depth, toplevel |-> toplevel,
   pos |-> 0, pending |-> <<>>, prop_schema |-> <<>>, prop |-> prop]

SetTop(f) == [stack EXCEPT ![Len(stack)] = f]

\* an exception leaves __call__
Raise(error) ==
  /\ pc' = "done"
  /\ status' = error
  /\ UNCHANGED <<factory, args, stack, history, definitions, schema>>

\* _build_properties has nothing more to do in a frame: the depth budget is
\* used up, or walk() is exhausted
Exhausted(f) ==
  \/ DepthExhausted(f.depth)
  \/ f.pending = <<>> /\ f.pos = Len(iterate(f.walker))

\* what a _build_properties frame returns
Returned(f) == IF DepthExhausted(f.depth) THEN <<>> ELSE f.prop_schema

Init ==
  /\ factory \in FactoryInputs
  /\ args \in ArgsInputs
  /\ pc = "start"
  /\ status = "running"
  /\ stack = <<>>
  /\ history = <<>>
  /\ definitions = EMPTY_DICT
  /\ schema = [title |-> args.model, properties |-> None, required |-> None]

\* __call__ up to the call of _build_properties, and the top of that call
Call ==
  /\ pc = "start"
  /\ IF Conflict(args.includes, args.excludes)
     THEN Raise("InvalidStatus: Conflict")
     ELSE /\ stack' = << Frame(BaseModelWalker(factory.walker, args.model, args.includes,
                                                args.excludes, None, factory.decisions),
                               CollectionForOverrides(args.overrides),
                               args.depth, TRUE, NoProp) >>
          /\ history' = <<>>
          /\ pc' = "build"
          /\ UNCHANGED <<factory, args, status, definitions, schema>>

WalkDecided(f, r, d) ==
  IF d.error # "" THEN Raise(d.error)
  ELSE /\ stack' = SetTop([f EXCEPT !.walker.walking = r.walking, !.pos = f.pos + 1,
                                    !.pending = d.triples])
       /\ UNCHANGED <<factory, args, pc, status, history, definitions, schema>>

WalkYielded(f, r) ==
  IF r.error # "" THEN Raise(r.error)
  ELSE WalkDecided(f, r, desicion_all([f.walker EXCEPT !.walking = r.walking],
                                      r.props, f.toplevel))

\* the loop head of _build_properties: walk() runs to its next yield (or to
\* its end), and desicion() is run on what it yields
WalkNext ==
  /\ pc = "build"
  /\ Top.pending = <<>>
  /\ ~Exhausted(Top)
  /\ WalkYielded(Top, walk_element(Top.walker, iterate(Top.walker)[Top.pos + 1]))

Descend(f, prop, includes, excludes) ==
  /\ history' = Append(history, prop)
  /\ IF Conflict(includes, excludes)
     THEN /\ pc' = "done"
          /\ status' = "InvalidStatus: Conflict"
          /\ UNCHANGED <<factory, args, stack, definitions, schema>>
     ELSE /\ stack' = Append(SetTop([f EXCEPT !.pending = Tail(f.pending)]),
                             Frame(child_walker(prop, f.walker, Some(Append(history, prop))),
                                   child_overrides(prop, f.overrides),
                                   child_depth(f.depth), FALSE, prop))
          /\ UNCHANGED <<factory, args, pc, status, definitions, schema>>

\* action == RELATIONSHIP, down to the recursive call in child_schema
Relationship ==
  /\ pc = "build"
  /\ Top.pending # <<>>
  /\ Head(Top.pending).action = RELATIONSHIP
  /\ Len(stack) < MaxStack
  /\ Descend(Top, Head(Top.pending).prop,
             child_includes(Head(Top.pending).prop, Top.walker),
             child_excludes(Head(Top.pending).prop, Top.walker))

StoreField(f, t, column, o) ==
  IF o.error # "" THEN Raise(o.error)
  ELSE /\ stack' = SetTop([f EXCEPT
                      !.pending = Tail(f.pending),
                      !.overrides = o.ov,
                      !.prop_schema = store_field(f.prop_schema, column.name, t.prop.key,
                                                  t.opts @@ o.basedict)])
       /\ UNCHANGED <<factory, args, pc, status, history, definitions, schema>>

\* action == FOREIGNKEY
ForeignKey ==
  /\ pc = "build"
  /\ Top.pending # <<>>
  /\ Head(Top.pending).action = FOREIGNKEY
  /\ StoreField(Top, Head(Top.pending), ColumnOf(Head(Top.pending).prop),
                apply_overrides(Top.overrides, ColumnOf(Head(Top.pending).prop)))

\* any other action: the literal is stored
Immediate ==
  /\ pc = "build"
  /\ Top.pending # <<>>
  /\ Head(Top.pending).action = IMMEDIATE
  /\ stack' = SetTop([Top EXCEPT
                        !.pending = Tail(Top.pending),
                        !.prop_schema = DictSet(Top.prop_schema, Head(Top.pending).prop.key,
                                                StringArray)])
  /\ UNCHANGED <<factory, args, pc, status, history, definitions, schema>>

Attach(prop, parent, val, r) ==
  IF r.error # "" THEN Raise(r.error)
  ELSE /\ stack' = SubSeq(stack, 1, Len(stack) - 2)
                   \o << [parent EXCEPT
                            !.walker.walking = r.walking,
                            !.prop_schema = DictSet(parent.prop_schema, prop.key,
                                                    reference_entry(prop, val))] >>
       /\ definitions' = IF factory.reference_files THEN definitions
                         ELSE (RelOf(prop).target :> definition_entry(val, r.required))
                              @@ definitions
       /\ UNCHANGED <<factory, args, pc, status, history, schema>>

\* a recursive _build_properties returns: the rest of child_schema, then
\* _add_property_with_reference with the walker of the calling frame
Return ==
  /\ pc = "build"
  /\ Len(stack) > 1
  /\ Exhausted(Top)
  /\ Attach(Top.prop, stack[Len(stack) - 1], child_schema(Top.prop, Returned(Top)),
            detect_required(stack[Len(stack) - 1].walker))

\* the outermost _build_properties returns into schema["properties"]
BuildReturn ==
  /\ pc = "build"
  /\ Len(stack) = 1
  /\ Exhausted(Top)
  /\ schema' = [schema EXCEPT !.properties = Some(Returned(Top))]
  /\ pc' = "built"
  /\ UNCHANGED <<factory, args, status, stack, history, definitions>>

Finished(f, r) ==
  IF f.overrides.not_used_keys # {} THEN Raise("InvalidStatus: Invalid overrides")
  ELSE IF r.error # "" THEN Raise(r.error)
  ELSE /\ schema' = [schema EXCEPT !.required =
                       IF r.required # <<>> THEN Some(r.required) ELSE None]
       /\ stack' = SetTop([f EXCEPT !.walker.walking = r.walking])
       /\ pc' = "done"
       /\ status' = "ok"
       /\ UNCHANGED <<factory, args, history, definitions>>

\* the rest of __call__
Finish ==
  /\ pc = "built"
  /\ Finished(Top, detect_required(Top.walker))

Next ==
  \/ Call
  \/ WalkNext
  \/ Relationship
  \/ ForeignKey
  \/ Immediate
  \/ Return
  \/ BuildReturn
  \/ Finish

Spec == Init /\ [][Next]_vars

\* ENABLED <<Next>>_vars, read off the guards of the actions: a call that has
\* not left __call__ has a next step, unless the frame cap of the model stops
\* a descent
CanStep ==
  /\ pc # "done"
  /\ ~(/\ pc = "build"
       /\ Top.pending # <<>>
       /\ Head(Top.pending).action = RELATIONSHIP
       /\ Len(stack) >= MaxStack)

\* every step is taken from a state where CanStep holds
StepsOnlyWhenCanStep == [][CanStep]_vars

\* The interpreter runs the call to its end: weak fairness of Next, that is
\* []<>~ENABLED <<Next>>_vars \/ []<><<Next>>_vars, with the enabling
\* condition written as CanStep.
Fairness == []<>(~CanStep) \/ []<><<Next>>_vars

LiveSpec == Spec /\ Fairness

\* ---------------------------------------------------------------- claims

Returned_ok == pc = "done" /\ status = "ok"

NoDuplicates(s) == \A i, j \in DOMAIN s : i # j => s[i] # s[j]

ColumnNamesOf(m) == {local_table_columns(m)[i].name : i \in DOMAIN local_table_columns(m)}

RequiredList == IF schema.required.isNone THEN <<>> ELSE schema.required.v

\* The frame cap of the model is never what stops a call.
StackBelowCap == Len(stack) < MaxStack

\* C1: within one generation call no relationship property is entered (appended
\* to the traversal history and descended into) more than once, whether from
\* the root walker or from a child walker.
C1_NoRelationshipEnteredTwice == NoDuplicates(history)

\* C2: a generation call with AlsoChildrenWalker or HandControlledWalker always
\* terminates (returns a schema or raises), on cyclic model graphs too, for
\* every depth and either setting of bidirectional.
C2_Terminates ==
  (factory.walker \in {AlsoChildrenWalker, HandControlledWalker}) ~> (pc = "done")

\* a call that went round a relationship cycle back to the root model, without
\* a depth limit, and came to its end
C2_Witness ==
  /\ pc = "done"
  /\ factory.walker \in {AlsoChildrenWalker, HandControlledWalker}
  /\ args.depth = None
  /\ \E i \in DOMAIN history : i > 1 /\ RelOf(history[i]).target = args.model

\* an undotted override key that names no field of the root's properties (a
\* dotted key names a field of a related model)
NamesNoField(k) == Len(k) = 1 /\ ~HasKey(schema.properties.v, k[1])

\* C3: if the overrides mapping has any key that names no produced field, the
\* call fails with InvalidStatus after the build, also when other keys of the
\* mapping do name produced fields.
C3_UnusedOverrideFails ==
  ( /\ pc = "done"
    /\ ~schema.properties.isNone
    /\ \E k \in DOMAIN args.overrides : NamesNoField(k) )
  => status = "InvalidStatus: Invalid overrides"

WithoutRelationTag(sub) == [k \in DOMAIN sub \ {<<"relation">>} |-> sub[k]]

\* C4: for overrides {f: v}, f a produced column and v a schema fragment,
\* properties[f] equals v exactly, and every other column's field schema is
\* the generated one.
C4_OverrideReplacesField ==
  ( /\ Returned_ok
    /\ Cardinality(DOMAIN args.overrides) = 1
    /\ \A k \in DOMAIN args.overrides :
         /\ args.overrides[k] # pop_marker
         /\ Len(k) = 1 /\ k[1] \in ColumnNamesOf(args.model)
         /\ HasKey(schema.properties.v, k[1]) )
  => \A i \in DOMAIN schema.properties.v :
       schema.properties.v[i].key \in ColumnNamesOf(args.model)
       => IF <<schema.properties.v[i].key>> \in DOMAIN args.overrides
          THEN schema.properties.v[i].val = args.overrides[<<schema.properties.v[i].key>>]
          ELSE WithoutRelationTag(schema.properties.v[i].val)
               = field_schema(ColumnNamed(local_table_columns(args.model),
                                          schema.properties.v[i].key))

\* C5: in the returned document, a column whose key is in properties is in the
\* root `required` list exactly when it is non-nullable and has no default.
C5_RequiredMatchesColumns ==
  Returned_ok =>
    \A c \in ColumnNamesOf(args.model) :
      HasKey(schema.properties.v, c)
      => ( (c \in Range(RequiredList))
           <=> ( /\ ~ColumnNamed(local_table_columns(args.model), c).nullable
                 /\ ~ColumnNamed(local_table_columns(args.model), c).hasDefault ) )

ScalarOnly(m) ==
  /\ relationships(m) = <<>>
  /\ \A i \in DOMAIN local_table_columns(m) : ~local_table_columns(m)[i].foreign_keys

Selected(name) ==
  /\ args.includes.isNone \/ <<name>> \in args.includes.v
  /\ args.excludes.isNone \/ <<name>> \notin args.excludes.v

\* the column names a scalar-only model's schema is to hold, in declaration order
ExpectedKeys(m) ==
  SelectSeq([i \in DOMAIN local_table_columns(m) |-> local_table_columns(m)[i].name],
            Selected)

\* C6 as stated: for a model with only scalar columns, whatever includes,
\* excludes and depth are, the keys of properties are exactly the selected
\* column names in declaration order.
C6_ScalarKeys_AnyDepth ==
  (Returned_ok /\ ScalarOnly(args.model))
  => Keys(schema.properties.v) = ExpectedKeys(args.model)

\* C6 (amended): the same, for a depth that is unset or at least 1; a depth of
\* 0 or less yields no properties at all.
C6_ScalarKeys ==
  (Returned_ok /\ ScalarOnly(args.model) /\ ~DepthExhausted(args.depth))
  => Keys(schema.properties.v) = ExpectedKeys(args.model)

\* a scalar-only model generated with a depth limit and an excludes list
\* that removes a column from the middle
C6_Witness ==
  /\ Returned_ok
  /\ ScalarOnly(args.model)
  /\ ~args.depth.isNone
  /\ ~args.excludes.isNone
  /\ Keys(schema.properties.v) = <<"id", "rank">>

Stripped(name, params) ==
  IF params.isNone THEN {}
  ELSE {Tail(e) : e \in {x \in params.v : Len(x) > 1 /\ Head(x) = name}}

BackReferences(prop) ==
  IF factory.bidirectional THEN {}
  ELSE {<<RelOf(prop).back_populates.v>> : x \in {y \in {1} : ~RelOf(prop).back_populates.isNone}}
       \cup {<<RelOf(prop).backref.v>> : x \in {y \in {1} : ~RelOf(prop).backref.isNone}}

ScopedFrom(parent, child, prop) ==
  /\ IF parent.includes.isNone THEN child.includes.isNone
     ELSE /\ ~child.includes.isNone
          /\ child.includes.v = Stripped(prop.key, parent.includes)
  /\ child.excludes.v \ {<<>>} = Stripped(prop.key, parent.excludes) \cup BackReferences(prop)

\* C7: the child walker's includes are the parent's includes under "R."
\* stripped, its excludes are the parent's excludes under "R." stripped plus
\* R's back-reference names (unless bidirectional), and no conflict of
\* includes and excludes arises during descent.
C7_ChildWalkerScoped ==
  /\ \A i \in DOMAIN stack :
       i > 1 => ScopedFrom(stack[i - 1].walker, stack[i].walker, stack[i].prop)
  /\ status = "InvalidStatus: Conflict" => stack = <<>>

\* C8: in inline-definitions mode, when a relationship to model M is attached,
\* definitions[M] holds M's own field mapping and the required list of M's
\* columns as the child walker sees them.
C8_DefinitionRequiredOfChild ==
  [][ ( /\ pc = "build" /\ pc' = "build"
        /\ Len(stack') < Len(stack)
        /\ ~factory.reference_files )
      => /\ definitions'[RelOf(Top.prop).target].properties = Returned(Top)
         /\ definitions'[RelOf(Top.prop).target].required
              = detect_required(Top.walker).required ]_vars

\* the relationship that walk() hands to ComfortableDesicion in this step
MeetsManyToOne(f, elem) ==
  /\ factory.relation_decision = ComfortableDesicion
  /\ elem.isRel
  /\ RelOf(elem).direction = MANYTOONE
  /\ walk_element(f.walker, elem).props = <<elem>>

\* C9: under ComfortableDesicion a many-to-one relationship met below the top
\* level is flattened into its local columns if and only if they differ from
\* the remote-side columns of the relationship through which the current
\* model was entered; at the top level it is always flattened.
C9_FlattenedAgainstParent ==
  [][ ( /\ pc = "build" /\ pc' = "build"
        /\ Top.pending = <<>> /\ ~Exhausted(Top)
        /\ Len(stack') = Len(stack) /\ stack' # stack
        /\ MeetsManyToOne(Top, iterate(Top.walker)[Top.pos + 1]) )
      => ( (stack'[Len(stack)].pending # <<>>)
           <=> ( \/ Top.toplevel
                 \/ Range(RelOf(iterate(Top.walker)[Top.pos + 1]).local_columns)
                      # Range(RelOf(Top.prop).remote_side) ) ) ]_vars

\* C10: the root `required` list of a returned document never holds the same
\* key twice.
C10_RequiredHasNoDuplicates == Returned_ok => NoDuplicates(RequiredList)

====
